---- MODULE Spec2Model ----
(***************************************************************************)
(* GitHubPagesGrid (src/github-pages.tsx): the component's React state,    *)
(* the fetches in flight, and the handlers that change them.               *)
(*                                                                         *)
(* Strings are sequences of one-character strings.  An optional value      *)
(* (string | null) is Null or Some(value).  An error message is the        *)
(* sequence of the fragments its template literal concatenates.            *)
(***************************************************************************)
EXTENDS Integers, Sequences, FiniteSets, TLC

\* ---------------------------------------------------------------- bounds

\* The longest response array the API returns in the model.
MaxRepos == 2
\* The most fetches that may be in flight at once in the model.
MaxInFlight == 2

\* ------------------------------------------------------ optional values

Null == <<>>
Some(x) == <<x>>

\* JavaScript truthiness of a string | null | undefined value.
Truthy(o) == o # Null /\ o[1] # <<>>

\* ---------------------------------------------------------------- strings

lowerChar(c) ==
    CASE c = "A" -> "a"
      [] c = "B" -> "b"
      [] OTHER -> c

\* String.prototype.toLowerCase
toLowerCase(s) == [i \in 1..Len(s) |-> lowerChar(s[i])]

\* String.prototype.includes
includes(s, t) ==
    \E i \in 0..(Len(s) - Len(t)) : SubSeq(s, i + 1, i + Len(t)) = t

\* String.prototype.startsWith
startsWith(s, p) == Len(s) >= Len(p) /\ SubSeq(s, 1, Len(p)) = p

RECURSIVE trimStart(_)
trimStart(s) == IF s # <<>> /\ Head(s) = " " THEN trimStart(Tail(s)) ELSE s

RECURSIVE trimEnd(_)
trimEnd(s) ==
    IF s # <<>> /\ s[Len(s)] = " " THEN trimEnd(SubSeq(s, 1, Len(s) - 1)) ELSE s

\* String.prototype.trim
trim(s) == trimEnd(trimStart(s))

\* ------------------------------------------------------------ input data

\* useState("octocat")
DefaultUsername == <<"o", "c", "t", "o", "c", "a", "t">>

\* Values the username field is given.
Usernames == {DefaultUsername, <<>>, <<"a">>}

\* Values the search field is given.
SearchTerms == {<<>>, <<"a", "B">>, <<"c">>}

\* Values of process.env.NEXT_PUBLIC_GITHUB_TOKEN (undefined is Null).
Tokens == {Null, Some(<<" ">>), Some(<<"t">>)}

\* HTTP statuses a response carries.
Statuses == {200, 403, 500}

\* interface GitHubRepo, the fields the component's logic reads; the
\* repositories the API knows, in the order it lists them (by name).
Listing ==
    << [id |-> 1, name |-> <<"A", "b">>, description |-> Null,
        html_url |-> <<"g", "/", "1">>, homepage |-> Some(<<"f", "t", "p">>),
        has_pages |-> TRUE],
       [id |-> 3, name |-> <<"b">>, description |-> Some(<<>>),
        html_url |-> <<"g", "/", "3">>, homepage |-> Null,
        has_pages |-> FALSE],
       [id |-> 2, name |-> <<"c">>, description |-> Some(<<"x", "A", "B">>),
        html_url |-> <<"g", "/", "2">>,
        homepage |-> Some(<<"h", "t", "t", "p", "s", ":", "/", "/", "e">>),
        has_pages |-> TRUE] >>

\* The entries of Listing at the positions of S, in listing order.
RECURSIVE listed(_, _)
listed(S, i) ==
    IF i > Len(Listing) THEN <<>>
    ELSE (IF i \in S THEN <<Listing[i]>> ELSE <<>>) \o listed(S, i + 1)

\* The arrays response.json() yields: up to MaxRepos repositories of Listing.
Responses ==
    { listed(S, 1) : S \in { T \in SUBSET (1..Len(Listing)) : Cardinality(T) <= MaxRepos } }

\* new Error(message): a thrown value that is an instance of Error.
Error(message) == [isError |-> TRUE, message |-> message]

\* The message of the TypeError fetch() rejects with when no response arrives.
NetworkMessage == <<"Failed to fetch">>
\* The message of the error a body that is not a JSON array of repositories
\* raises in response.json() or in allRepos.filter.
MalformedMessage == <<"Unexpected token < in JSON at position 0">>

\* ----------------------------------------------------------------- state

VARIABLES
    repos,          \* useState<GitHubRepo[]>([])
    filteredRepos,  \* useState<GitHubRepo[]>([])
    loading,        \* useState(true)
    error,          \* useState<string | null>(null)
    searchTerm,     \* useState("")
    username,       \* useState("octocat")
    token,          \* process.env.NEXT_PUBLIC_GITHUB_TOKEN
    mounted,        \* the mount effects have run
    effectPending,  \* the filter effect is scheduled: repos or searchTerm changed
    inflight,       \* the fetches started and not settled, in start order
    lastOutcome,    \* how the fetch that settled last ended
    lastStatus,     \* the HTTP status of that fetch (0: no response)
    lastResp,       \* the array the last successful fetch received
    reposUser,      \* the username the fetch that set repos was made for
    staleStored     \* repos was set by a fetch started before another that succeeded

vars == <<repos, filteredRepos, loading, error, searchTerm, username, token,
          mounted, effectPending, inflight, lastOutcome, lastStatus, lastResp,
          reposUser, staleStored>>

hist == <<lastOutcome, lastStatus, lastResp, reposUser, staleStored>>

\* --------------------------------------------------------- pure functions

\* A fetch that keeps every repository of the response.
pagesReposAll(allRepos) == allRepos

\* allRepos.filter((repo) => repo.has_pages)
pagesRepos(allRepos) == SelectSeq(allRepos, LAMBDA repo : repo.has_pages)

\* The predicate of the filter effect.
matchesSearch(repo, term) ==
    \/ includes(toLowerCase(repo.name), toLowerCase(term))
    \/ /\ Truthy(repo.description)
       /\ includes(toLowerCase(repo.description[1]), toLowerCase(term))

\* A filter that compares without lower-casing.
filterReposCaseSensitive(rs, term) ==
    SelectSeq(rs, LAMBDA repo :
        \/ includes(repo.name, term)
        \/ Truthy(repo.description) /\ includes(repo.description[1], term))

\* repos.filter(...) of the filter effect.
filterRepos(rs, term) == SelectSeq(rs, LAMBDA repo : matchesSearch(repo, term))

\* A classification that takes a blank token for a credential.
statusMessageAnyToken(status, tok) ==
    IF status = 403
    THEN IF Truthy(tok)
         THEN <<"Failed to fetch repositories: ", ToString(status),
                ". This might be due to an invalid or expired GitHub token, or insufficient permissions. Please check your NEXT_PUBLIC_GITHUB_TOKEN.">>
         ELSE <<"Failed to fetch repositories: ", ToString(status),
                ". This is likely due to rate limiting. Please set NEXT_PUBLIC_GITHUB_TOKEN in your .env.local file to increase the rate limit.">>
    ELSE <<"Failed to fetch repositories: ", ToString(status)>>

\* The message of the Error thrown for a response that is not ok.
statusMessage(status, tok) ==
    IF status = 403
    THEN IF Truthy(tok) /\ trim(tok[1]) # <<>>
         THEN <<"Failed to fetch repositories: ", ToString(status),
                ". This might be due to an invalid or expired GitHub token, or insufficient permissions. Please check your NEXT_PUBLIC_GITHUB_TOKEN.">>
         ELSE <<"Failed to fetch repositories: ", ToString(status),
                ". This is likely due to rate limiting. Please set NEXT_PUBLIC_GITHUB_TOKEN in your .env.local file to increase the rate limit.">>
    ELSE <<"Failed to fetch repositories: ", ToString(status)>>

\* response.ok
responseOk(status) == status >= 200 /\ status <= 299

\* getPageUrl, with the username of the current render.
getPageUrl(repo) ==
    IF Truthy(repo.homepage) /\ startsWith(repo.homepage[1], <<"h", "t", "t", "p">>)
    THEN repo.homepage[1]
    ELSE <<"h", "t", "t", "p", "s", ":", "/", "/">> \o username
         \o <<".", "g", "i", "t", "h", "u", "b", ".", "i", "o", "/">> \o repo.name

\* href of the "Repository" link.
repositoryHref(repo) == repo.html_url

\* ---------------------------------------------------------------- render

\* The branch of the conditional that renders the main area.
RenderView ==
    IF loading THEN "loading"
    ELSE IF Len(filteredRepos) > 0 THEN "grid"
    ELSE IF ~loading /\ Len(repos) = 0 /\ username # <<>> THEN "empty"
    ELSE "none"

\* The entries of the card grid.
RenderedGrid == IF RenderView = "grid" THEN filteredRepos ELSE <<>>

\* {error && (...)}
ErrorBanner == Truthy(error)

\* {repos.length > 0 && (<Input ... />)}
SearchInputShown == Len(repos) > 0

\* The username the empty-state message names.
EmptyStateUser == username

\* ------------------------------------------------------------------ init

Init ==
    /\ repos = <<>>
    /\ filteredRepos = <<>>
    /\ loading = TRUE
    /\ error = Null
    /\ searchTerm = <<>>
    /\ username = DefaultUsername
    /\ token \in Tokens
    /\ mounted = FALSE
    /\ effectPending = FALSE
    /\ inflight = <<>>
    /\ lastOutcome = "none"
    /\ lastStatus = 0
    /\ lastResp = <<>>
    /\ reposUser = Null
    /\ staleStored = FALSE

\* --------------------------------------------------------------- actions

\* fetchGitHubPages up to its first await: the guard, the two setters and the
\* request, made for the username of the render the handler belongs to.
fetchGitHubPagesStart ==
    IF trim(username) = <<>>
    THEN UNCHANGED <<loading, error, inflight>>
    ELSE /\ loading' = TRUE
         /\ error' = Null
         /\ inflight' = Append(inflight, [user |-> username, overtaken |-> FALSE])

\* The filter effect's body.
runFilterEffect == filteredRepos' = filterRepos(repos, searchTerm)

\* The first commit: both effects run, the initial fetch and the filter.
Mount ==
    /\ ~mounted
    /\ mounted' = TRUE
    /\ fetchGitHubPagesStart
    /\ runFilterEffect
    /\ effectPending' = FALSE
    /\ UNCHANGED <<repos, searchTerm, username, token>>
    /\ UNCHANGED hist

\* Events and settled promises are handled once the scheduled effects of the
\* previous commit have run.
Idle == mounted /\ ~effectPending

\* A click on the button, which is disabled while loading.
ClickFetch ==
    /\ Idle
    /\ ~loading
    /\ Len(inflight) < MaxInFlight
    /\ fetchGitHubPagesStart
    /\ UNCHANGED <<repos, filteredRepos, searchTerm, username, token, mounted,
                   effectPending>>
    /\ UNCHANGED hist

\* Enter pressed in the username field.
PressEnter ==
    /\ Idle
    /\ Len(inflight) < MaxInFlight
    /\ fetchGitHubPagesStart
    /\ UNCHANGED <<repos, filteredRepos, searchTerm, username, token, mounted,
                   effectPending>>
    /\ UNCHANGED hist

\* onChange of the username field.
SetUsername ==
    /\ Idle
    /\ \E u \in Usernames \ {username} : username' = u
    /\ UNCHANGED <<repos, filteredRepos, loading, error, searchTerm, token,
                   mounted, effectPending, inflight>>
    /\ UNCHANGED hist

\* onChange of the search field, rendered while repos is not empty.
SetSearchTerm ==
    /\ Idle
    /\ SearchInputShown
    /\ \E t \in SearchTerms \ {searchTerm} : searchTerm' = t
    /\ effectPending' = TRUE
    /\ UNCHANGED <<repos, filteredRepos, loading, error, username, token,
                   mounted, inflight>>
    /\ UNCHANGED hist

\* The filter effect, after a commit that changed repos or searchTerm.
FilterEffect ==
    /\ mounted
    /\ effectPending
    /\ runFilterEffect
    /\ effectPending' = FALSE
    /\ UNCHANGED <<repos, loading, error, searchTerm, username, token, mounted,
                   inflight>>
    /\ UNCHANGED hist

\* inflight without its i-th fetch; after a success the fetches started
\* before it are marked as overtaken.
settled(i, ok) ==
    LET marked == [j \in 1..Len(inflight) |->
                     IF ok /\ j < i
                     THEN [inflight[j] EXCEPT !.overtaken = TRUE]
                     ELSE inflight[j]]
    IN  SubSeq(marked, 1, i - 1) \o SubSeq(marked, i + 1, Len(marked))

\* An error path that also clears the stored list.
catchFinallyClearing(err) ==
    /\ error' = Some(IF err.isError THEN err.message ELSE <<"An error occurred">>)
    /\ loading' = FALSE
    /\ repos' = <<>>
    /\ effectPending' = TRUE

\* catch (err) { setError(...) } finally { setLoading(false) }
catchFinally(err) ==
    /\ error' = Some(IF err.isError THEN err.message ELSE <<"An error occurred">>)
    /\ loading' = FALSE
    /\ UNCHANGED <<repos, effectPending>>

\* A success path that ignores the response of a fetch overtaken by a newer one.
setReposFinallyUnlessOvertaken(f, allRepos) ==
    /\ IF f.overtaken
       THEN UNCHANGED <<repos, effectPending>>
       ELSE repos' = pagesRepos(allRepos) /\ effectPending' = TRUE
    /\ loading' = FALSE
    /\ UNCHANGED error

\* setRepos(pagesRepos) and the finally block, for the fetch f and the array
\* allRepos it received.
setReposFinally(f, allRepos) ==
    /\ repos' = pagesRepos(allRepos)
    /\ effectPending' = TRUE
    /\ loading' = FALSE
    /\ UNCHANGED error

\* fetch() rejects: no response.
RejectFetch ==
    /\ Idle
    /\ \E i \in 1..Len(inflight) :
         /\ catchFinally(Error(NetworkMessage))
         /\ inflight' = settled(i, FALSE)
         /\ lastOutcome' = "network"
         /\ lastStatus' = 0
    /\ UNCHANGED <<filteredRepos, searchTerm, username, token, mounted>>
    /\ UNCHANGED <<lastResp, reposUser, staleStored>>

\* fetch() resolves with a status that is not ok.
ResolveNotOk ==
    /\ Idle
    /\ \E i \in 1..Len(inflight), s \in Statuses :
         /\ ~responseOk(s)
         /\ catchFinally(Error(statusMessage(s, token)))
         /\ inflight' = settled(i, FALSE)
         /\ lastOutcome' = "status"
         /\ lastStatus' = s
    /\ UNCHANGED <<filteredRepos, searchTerm, username, token, mounted>>
    /\ UNCHANGED <<lastResp, reposUser, staleStored>>

\* fetch() resolves ok and the body is not a JSON array of repositories.
ResolveMalformed ==
    /\ Idle
    /\ \E i \in 1..Len(inflight), s \in Statuses :
         /\ responseOk(s)
         /\ catchFinally(Error(MalformedMessage))
         /\ inflight' = settled(i, FALSE)
         /\ lastOutcome' = "malformed"
         /\ lastStatus' = s
    /\ UNCHANGED <<filteredRepos, searchTerm, username, token, mounted>>
    /\ UNCHANGED <<lastResp, reposUser, staleStored>>

\* fetch() resolves ok with the array allRepos.
ResolveOk ==
    /\ Idle
    /\ \E i \in 1..Len(inflight), s \in Statuses, allRepos \in Responses :
         /\ responseOk(s)
         /\ setReposFinally(inflight[i], allRepos)
         /\ inflight' = settled(i, TRUE)
         /\ lastOutcome' = "ok"
         /\ lastStatus' = s
         /\ lastResp' = allRepos
         /\ reposUser' = Some(inflight[i].user)
         /\ staleStored' = inflight[i].overtaken
    /\ UNCHANGED <<filteredRepos, searchTerm, username, token, mounted>>

Next ==
    \/ Mount
    \/ ClickFetch
    \/ PressEnter
    \/ SetUsername
    \/ SetSearchTerm
    \/ FilterEffect
    \/ RejectFetch
    \/ ResolveNotOk
    \/ ResolveMalformed
    \/ ResolveOk

Spec == Init /\ [][Next]_vars

\* ---------------------------------------------------------------- claims

\* The outcomes of a fetch that failed.
Failures == {"network", "status", "malformed"}

\* The last step settled a fetch.
Settles == Len(inflight') < Len(inflight)

\* The entries of a response whose has_pages flag is true, in order.
RECURSIVE PagesEnabled(_)
PagesEnabled(R) ==
    IF R = <<>> THEN <<>>
    ELSE (IF Head(R).has_pages THEN <<Head(R)>> ELSE <<>>) \o PagesEnabled(Tail(R))

\* s contains t, compared character by character without regard to case.
ContainsIgnoringCase(s, t) ==
    \E i \in 0..(Len(s) - Len(t)) :
        \A k \in 1..Len(t) : lowerChar(s[i + k]) = lowerChar(t[k])

\* rs restricted to the entries whose name, or description when present,
\* contains term case-insensitively.
RECURSIVE Restricted(_, _)
Restricted(rs, term) ==
    IF rs = <<>> THEN <<>>
    ELSE LET r == Head(rs)
             keep == \/ ContainsIgnoringCase(r.name, term)
                     \/ /\ r.description # Null
                        /\ ContainsIgnoringCase(r.description[1], term)
         IN  (IF keep THEN <<r>> ELSE <<>>) \o Restricted(Tail(rs), term)

\* C1: once a fetch has succeeded with the array R, repos is exactly the
\* has_pages entries of R, in order; and when that success is the latest
\* settlement, nothing is in flight, the search term is empty and the filter
\* effect has run, the rendered grid is exactly those entries.
C1_SuccessReplacesRepos ==
    reposUser # Null =>
        /\ repos = PagesEnabled(lastResp)
        /\ (lastOutcome = "ok" /\ inflight = <<>> /\ searchTerm = <<>>
              /\ ~effectPending)
           => RenderedGrid = PagesEnabled(lastResp)

C1_Witness ==
    /\ lastOutcome = "ok" /\ inflight = <<>> /\ searchTerm = <<>> /\ ~effectPending
    /\ Len(lastResp) = 2
    /\ Len(RenderedGrid) = 1
    /\ lastResp[1].has_pages = FALSE

\* C2: whenever the filter effect has run for the latest change, filteredRepos
\* is repos restricted to the entries matching searchTerm case-insensitively
\* by name or by description, and is repos itself for the empty term.
C2_FilteredIsRestriction ==
    (mounted /\ ~effectPending) =>
        /\ filteredRepos = Restricted(repos, searchTerm)
        /\ searchTerm = <<>> => filteredRepos = repos

C2_Witness ==
    /\ mounted /\ ~effectPending
    /\ searchTerm = <<"c">>
    /\ Len(repos) = 2
    /\ Len(filteredRepos) = 1

TokenHint ==
    ". This might be due to an invalid or expired GitHub token, or insufficient permissions. Please check your NEXT_PUBLIC_GITHUB_TOKEN."

RateLimitHint ==
    ". This is likely due to rate limiting. Please set NEXT_PUBLIC_GITHUB_TOKEN in your .env.local file to increase the rate limit."

\* A credential is configured: the token is set and not blank.
CredentialConfigured ==
    token # Null /\ \E i \in 1..Len(token[1]) : token[1][i] # " "

HasFragment(message, fragment) ==
    \E i \in 1..Len(message) : message[i] = fragment

\* C3: a fetch that receives a non-success status s sets error to the message
\* (s, credential configured) determines: the token message for 403 with a
\* credential, the rate-limit message for 403 without one, and the generic
\* "Failed to fetch repositories: s" with neither hint for any other s.
C3_ErrorClassification ==
    [][(Settles /\ lastOutcome' = "status") =>
          /\ error' # Null
          /\ LET s == lastStatus'
                 m == error'[1]
             IN  /\ m[1] = "Failed to fetch repositories: "
                 /\ m[2] = ToString(s)
                 /\ (s = 403 /\ CredentialConfigured)
                      => m = <<m[1], m[2], TokenHint>>
                 /\ (s = 403 /\ ~CredentialConfigured)
                      => m = <<m[1], m[2], RateLimitHint>>
                 /\ s # 403
                      => /\ m = <<m[1], m[2]>>
                         /\ ~HasFragment(m, TokenHint)
                         /\ ~HasFragment(m, RateLimitHint)]_vars

C3_Witness ==
    /\ lastOutcome = "status" /\ lastStatus = 403
    /\ token = Some(<<" ">>)
    /\ error # Null /\ HasFragment(error[1], RateLimitHint)

\* C4: the empty-state message is rendered only after a fetch that completed
\* with zero pages-enabled repositories, it names the username that fetch was
\* made for, and it is rendered whenever such a fetch is the latest settlement.
C4_EmptyStateOnlyAfterEmptyFetch ==
    /\ RenderView = "empty" =>
          /\ lastOutcome = "ok"
          /\ PagesEnabled(lastResp) = <<>>
          /\ reposUser = Some(EmptyStateUser)
    /\ (lastOutcome = "ok" /\ PagesEnabled(lastResp) = <<>> /\ inflight = <<>>)
          => RenderView = "empty"

\* C5: at most one fetch is in flight at any time.
C5_AtMostOneInFlight == Len(inflight) <= 1

\* C6: a failed fetch changes neither repos nor filteredRepos, it sets only
\* error and loading, so the stored list is shown with the error banner; and
\* repos changes only when a fetch settles successfully.
C6_FailureKeepsRepos ==
    [][/\ (Settles /\ lastOutcome' \in Failures) =>
             /\ repos' = repos
             /\ filteredRepos' = filteredRepos
             /\ searchTerm' = searchTerm /\ username' = username
             /\ error' # Null /\ loading' = FALSE
             /\ ErrorBanner'
             /\ RenderedGrid' = Restricted(repos, searchTerm)
       /\ repos' # repos => (Settles /\ lastOutcome' = "ok")]_vars

C6_Witness ==
    /\ lastOutcome \in Failures
    /\ reposUser # Null /\ Len(repos) = 2
    /\ ErrorBanner
    /\ RenderView = "grid" /\ RenderedGrid = repos

\* The site link the entry e is to carry when the displayed list was fetched
\* for the username u.
SiteLink(e, u) ==
    IF e.homepage # Null /\ Len(e.homepage[1]) >= 4
          /\ SubSeq(e.homepage[1], 1, 4) = <<"h", "t", "t", "p">>
    THEN e.homepage[1]
    ELSE <<"h", "t", "t", "p", "s", ":", "/", "/">> \o u
         \o <<".", "g", "i", "t", "h", "u", "b", ".", "i", "o", "/">> \o e.name

\* C7: every displayed entry's site link is its http homepage, or else
\* https://<u>.github.io/<name> for the username u the displayed list was
\* fetched for; its repository link is its html_url.
C7_SiteLinkOfFetchedUser ==
    ~effectPending =>
        \A i \in 1..Len(RenderedGrid) :
            /\ getPageUrl(RenderedGrid[i]) = SiteLink(RenderedGrid[i], reposUser[1])
            /\ repositoryHref(RenderedGrid[i]) = RenderedGrid[i].html_url

\* C8: while a fetch is in flight, loading is true and the placeholder grid
\* is what is rendered.
C8_LoadingWhileInFlight ==
    inflight # <<>> => (loading /\ RenderView = "loading")

\* C9: starting a fetch cancels none of those in flight, every successful
\* response overwrites repos when it settles, whether or not a newer fetch
\* has succeeded meanwhile, and once nothing is in flight repos is the result
\* of the success that settled last.
C9_LastSettledSuccessWins ==
    [][/\ ~Settles => /\ Len(inflight') >= Len(inflight)
                      /\ SubSeq(inflight', 1, Len(inflight)) = inflight
       /\ (Settles /\ lastOutcome' = "ok") => repos' = PagesEnabled(lastResp')
       /\ (inflight' = <<>> /\ reposUser' # Null)
             => repos' = PagesEnabled(lastResp')]_vars

\* The stored list is that of a fetch started before another fetch that also
\* succeeded, and nothing is in flight any more.
C9_Witness ==
    /\ staleStored
    /\ inflight = <<>>
    /\ lastOutcome = "ok"
    /\ repos = PagesEnabled(lastResp) /\ repos # <<>>

\* C10: with nothing in flight and a success as the latest settlement error
\* is null, and error is non-null only if the latest settlement is a failure.
C10_ErrorMatchesLastFetch ==
    /\ (inflight = <<>> /\ lastOutcome = "ok") => error = Null
    /\ error # Null => lastOutcome \in Failures

====
